---- MODULE Spec2Model ----
(***************************************************************************)
(* kagi: a deterministic per-site password generator.                      *)
(*                                                                         *)
(* The model follows the revision that holds filters as function values    *)
(* (src/unnamed/part_001): ParseFilter, the filter functions,              *)
(* Site.Password, loadSites, loadMasterPassword, init and main.            *)
(*                                                                         *)
(* A Go string is modelled as a sequence of one-character strings.  All    *)
(* inputs are ASCII, so a byte index (len, s[i:j]) and a rune index agree. *)
(***************************************************************************)
EXTENDS Integers, Sequences, FiniteSets, TLC

(***************************************************************************)
(* Characters.                                                             *)
(***************************************************************************)

\* The digits and letters in code order: "0" has code 48, "A" 65, "a" 97.
Digits ==
    <<"0", "1", "2", "3", "4", "5", "6", "7", "8", "9">>

Uppers ==
    <<"A", "B", "C", "D", "E", "F", "G", "H", "I", "J", "K", "L", "M",
      "N", "O", "P", "Q", "R", "S", "T", "U", "V", "W", "X", "Y", "Z">>

Lowers ==
    <<"a", "b", "c", "d", "e", "f", "g", "h", "i", "j", "k", "l", "m",
      "n", "o", "p", "q", "r", "s", "t", "u", "v", "w", "x", "y", "z">>

IsDigit(c) ==
    \E i \in 1..10 : Digits[i] = c

IsUpper(c) ==
    \E i \in 1..26 : Uppers[i] = c

IsLower(c) ==
    \E i \in 1..26 : Lowers[i] = c

\* The code of a digit or letter: the integer value of the Go rune.
Ord(c) ==
    IF IsDigit(c) THEN 47 + (CHOOSE i \in 1..10 : Digits[i] = c)
    ELSE IF IsUpper(c) THEN 64 + (CHOOSE i \in 1..26 : Uppers[i] = c)
    ELSE 96 + (CHOOSE i \in 1..26 : Lowers[i] = c)

\* string(n) for n the code of a digit or letter.
Chr(n) ==
    IF n \in 48..57 THEN Digits[n - 47]
    ELSE IF n \in 65..90 THEN Uppers[n - 64]
    ELSE Lowers[n - 96]

\* unicode.IsSpace restricted to ASCII, as strings.Fields / strings.TrimSpace use it.
IsSpace(c) ==
    c \in {" ", "\t", "\n", "\r", "\f"}

(***************************************************************************)
(* The parts of package strings and strconv the program calls.             *)
(***************************************************************************)

\* s[from:] with 0-based from, for 0 <= from <= len(s).
Drop(s, from) ==
    SubSeq(s, from + 1, Len(s))

\* s[from:to] with 0-based bounds, for 0 <= from <= to <= len(s).
Slice(s, from, to) ==
    SubSeq(s, from + 1, to)

HasPrefix(s, prefix) ==
    /\ Len(prefix) <= Len(s)
    /\ SubSeq(s, 1, Len(prefix)) = prefix

RECURSIVE TrimLeft(_)
TrimLeft(s) ==
    IF s # <<>> /\ IsSpace(Head(s)) THEN TrimLeft(Tail(s)) ELSE s

RECURSIVE TrimRight(_)
TrimRight(s) ==
    IF s # <<>> /\ IsSpace(s[Len(s)]) THEN TrimRight(SubSeq(s, 1, Len(s) - 1)) ELSE s

\* strings.TrimSpace
TrimSpace(s) ==
    TrimRight(TrimLeft(s))

\* The concatenation of the strings of a sequence, by halves.
RECURSIVE Flatten(_)
Flatten(parts) ==
    IF parts = <<>> THEN <<>>
    ELSE IF Len(parts) = 1 THEN parts[1]
    ELSE Flatten(SubSeq(parts, 1, Len(parts) \div 2))
             \o Flatten(SubSeq(parts, Len(parts) \div 2 + 1, Len(parts)))

\* The k-th smallest element of a finite set of integers.
Nth(S, k) ==
    CHOOSE i \in S : Cardinality({j \in S : j < i}) = k - 1

\* strings.Split(s, sep) for a one-character separator: the pieces between the
\* occurrences of sep, one more piece than there are occurrences.
Split(s, sep) ==
    LET at == {i \in 1..Len(s) : s[i] = sep}
        n == Cardinality(at)
    IN  [k \in 1..(n + 1) |->
            SubSeq(s,
                   IF k = 1 THEN 1 ELSE Nth(at, k - 1) + 1,
                   IF k = n + 1 THEN Len(s) ELSE Nth(at, k) - 1)]

\* strings.Fields: the maximal runs of non-space characters.
Fields(s) ==
    LET first == {i \in 1..Len(s) : ~IsSpace(s[i]) /\ (i = 1 \/ IsSpace(s[i - 1]))}
        last == {i \in 1..Len(s) : ~IsSpace(s[i]) /\ (i = Len(s) \/ IsSpace(s[i + 1]))}
    IN  [k \in 1..Cardinality(first) |-> SubSeq(s, Nth(first, k), Nth(last, k))]

\* strings.ReplaceAll(s, old, new) for an old of two characters or more: the
\* matches are taken left to right and do not overlap.
RECURSIVE ReplaceLong(_, _, _)
ReplaceLong(s, old, new) ==
    IF Len(s) < Len(old) THEN s
    ELSE IF HasPrefix(s, old) THEN new \o ReplaceLong(Drop(s, Len(old)), old, new)
    ELSE <<Head(s)>> \o ReplaceLong(Tail(s), old, new)

\* strings.ReplaceAll(s, old, new).  An empty old matches before every character
\* and at the end; the matches of a one-character old cannot overlap, so every
\* character is replaced on its own.
ReplaceAll(s, old, new) ==
    IF old = <<>>
    THEN new \o Flatten([i \in 1..Len(s) |-> <<s[i]>> \o new])
    ELSE IF Len(old) = 1
    THEN Flatten([i \in 1..Len(s) |-> IF s[i] = old[1] THEN new ELSE <<s[i]>>])
    ELSE ReplaceLong(s, old, new)

ToUpperChar(c) ==
    IF IsLower(c) THEN Chr(Ord(c) - 32) ELSE c

ToLowerChar(c) ==
    IF IsUpper(c) THEN Chr(Ord(c) + 32) ELSE c

\* strings.ToUpper
ToUpper(s) ==
    [i \in 1..Len(s) |-> ToUpperChar(s[i])]

\* strings.ToLower
ToLower(s) ==
    [i \in 1..Len(s) |-> ToLowerChar(s[i])]

RECURSIVE DigitsValue(_)
DigitsValue(s) ==
    IF s = <<>> THEN 0 ELSE 10 * DigitsValue(SubSeq(s, 1, Len(s) - 1)) + (Ord(s[Len(s)]) - 48)

AllDigits(s) ==
    /\ s # <<>>
    /\ \A i \in 1..Len(s) : IsDigit(s[i])

\* strconv.Atoi: an optional sign and decimal digits; err # nil otherwise.  The
\* numerals of the model stay far below 2^63, so the range error never occurs.
Atoi(s) ==
    IF s # <<>> /\ Head(s) \in {"-", "+"}
    THEN IF AllDigits(Tail(s))
         THEN [ok |-> TRUE, val |-> IF Head(s) = "-" THEN 0 - DigitsValue(Tail(s)) ELSE DigitsValue(Tail(s))]
         ELSE [ok |-> FALSE, val |-> 0]
    ELSE IF AllDigits(s)
         THEN [ok |-> TRUE, val |-> DigitsValue(s)]
         ELSE [ok |-> FALSE, val |-> 0]

(***************************************************************************)
(* Filters.  A Go Filter value (a func(string) string, or nil) is a record *)
(* that names the function and holds the variables its closure captured.   *)
(***************************************************************************)

\* The nil Filter: `var filter Filter` before any case of the switch assigns it.
Nil ==
    [kind |-> "nil"]

kwReplace ==
    <<"r", "e", "p", "l", "a", "c", "e">>

kwSkip ==
    <<"s", "k", "i", "p">>

kwSubstring ==
    <<"s", "u", "b", "s", "t", "r", "i", "n", "g">>

kwDigit ==
    <<"d", "i", "g", "i", "t">>

kwUppercase ==
    <<"u", "p", "p", "e", "r", "c", "a", "s", "e">>

kwLowercase ==
    <<"l", "o", "w", "e", "r", "c", "a", "s", "e">>

\* The start and end a "substring" directive captures: each is strconv.Atoi of
\* its argument when that succeeds, and otherwise keeps its default (0, -1).
SubstringBounds(args) ==
    LET s == Atoi(args[1])
        e == IF 2 <= Len(args) THEN Atoi(args[2]) ELSE [ok |-> FALSE, val |-> 0]
    IN  [start |-> IF s.ok THEN s.val ELSE 0,
         end   |-> IF e.ok THEN e.val ELSE 0 - 1]

\* The switch of ParseFilter over the directive's name.
FilterOfKind(name, args) ==
    CASE name = kwReplace ->
           IF Len(args) # 2 THEN Nil
           ELSE [kind |-> "replace", from |-> args[1], to |-> args[2]]
      [] name = kwSkip ->
           IF Len(args) # 1 THEN Nil
           ELSE [kind |-> "skip", chars |-> args[1]]
      [] name = kwSubstring ->
           IF Len(args) < 1 \/ 2 < Len(args) THEN Nil
           ELSE [kind |-> "substring",
                 start |-> SubstringBounds(args).start,
                 end |-> SubstringBounds(args).end]
      [] name = kwDigit -> [kind |-> "digit"]
      [] name = kwUppercase -> [kind |-> "uppercase"]
      [] name = kwLowercase -> [kind |-> "lowercase"]
      [] OTHER -> Nil

\* ParseFilter without the check of the "@" prefix.
ParseFilterAnyPrefix(line) ==
    LET fields == Fields(line)
    IN  IF Len(fields) < 2 THEN Nil
        ELSE FilterOfKind(Tail(fields[2]), Drop(fields, 2))

ParseFilter(line) ==
    LET fields == Fields(line)
    IN  IF Len(fields) < 2 THEN Nil
        ELSE IF ~HasPrefix(fields[2], <<"@">>) THEN Nil
        ELSE FilterOfKind(Tail(fields[2]), Drop(fields, 2))

\* DigitsRound with the second loop starting one letter late: i from 21.
DigitsRoundLate(str, i) ==
    IF i < 20
    THEN ReplaceAll(ReplaceAll(str, <<Chr(97 + i)>>, <<Chr(48 + (i % 10))>>),
                    <<Chr(65 + i)>>, <<Chr(48 + (i % 10))>>)
    ELSE IF i = 20 THEN str
    ELSE IF i < 26
    THEN ReplaceAll(ReplaceAll(str, <<Chr(97 + i)>>, <<>>), <<Chr(65 + i)>>, <<>>)
    ELSE IF i = 26 THEN ReplaceAll(str, <<"+">>, <<>>)
    ELSE ReplaceAll(str, <<"/">>, <<>>)

\* Round i of filterDigits.  Rounds 0..19 are the first loop (letter i of a.. and
\* of A.. becomes the digit i % 10), rounds 20..25 the second loop (letter i of
\* a.. and of A.. is removed), rounds 26 and 27 the removal of "+" and of "/".
DigitsRound(str, i) ==
    IF i < 20
    THEN ReplaceAll(ReplaceAll(str, <<Chr(97 + i)>>, <<Chr(48 + (i % 10))>>),
                    <<Chr(65 + i)>>, <<Chr(48 + (i % 10))>>)
    ELSE IF i < 26
    THEN ReplaceAll(ReplaceAll(str, <<Chr(97 + i)>>, <<>>), <<Chr(65 + i)>>, <<>>)
    ELSE IF i = 26 THEN ReplaceAll(str, <<"+">>, <<>>)
    ELSE ReplaceAll(str, <<"/">>, <<>>)

\* str after the rounds lo .. hi-1 in order: the rounds of the first half, then
\* those of the second half on what the first half produced.
RECURSIVE DigitsRounds(_, _, _)
DigitsRounds(str, lo, hi) ==
    IF hi <= lo THEN str
    ELSE IF hi = lo + 1 THEN DigitsRound(str, lo)
    ELSE LET mid == (lo + hi) \div 2
         IN  CHOOSE r \in {DigitsRounds(half, mid, hi) :
                              half \in {DigitsRounds(str, lo, mid)}} : TRUE

filterDigits(str) ==
    DigitsRounds(str, 0, 28)

\* filterSkip that removes the first character of chars only.
filterSkipFirst(str, chars) ==
    IF chars = <<>> THEN str ELSE ReplaceAll(str, <<Head(chars)>>, <<>>)

\* for _, c := range chars { str = strings.Replace(str, string(c), "", -1) }
RECURSIVE filterSkip(_, _)
filterSkip(str, chars) ==
    IF chars = <<>> THEN str
    ELSE filterSkip(ReplaceAll(str, <<Head(chars)>>, <<>>), Tail(chars))

\* The end index filterSubstring slices to when 0 <= end.
SubstringEnd(str, end) ==
    IF Len(str) <= end THEN Len(str) ELSE end

\* Whether the slice expression of filterSubstring is out of range: Go panics on
\* s[lo:hi] unless 0 <= lo <= hi <= len(s).
filterSubstringPanics(str, start, end) ==
    IF 0 <= end
    THEN ~(0 <= start /\ start <= SubstringEnd(str, end))
    ELSE ~(0 <= start /\ start <= Len(str))

\* filterSubstring that takes its last argument for a length.
filterSubstringByLength(str, start, end) ==
    IF 0 <= end
    THEN Slice(str, start, IF Len(str) <= start + end THEN Len(str) ELSE start + end)
    ELSE Drop(str, start)

\* The value filterSubstring returns when its slice expression is in range.
filterSubstring(str, start, end) ==
    IF 0 <= end
    THEN Slice(str, start, SubstringEnd(str, end))
    ELSE Drop(str, start)

\* Whether the call filter(str) panics.
FilterPanics(filter, str) ==
    /\ filter.kind = "substring"
    /\ filterSubstringPanics(str, filter.start, filter.end)

\* The value of the call filter(str) when it returns.
ApplyFilter(filter, str) ==
    CASE filter.kind = "replace" -> ReplaceAll(str, filter.from, filter.to)
      [] filter.kind = "skip" -> filterSkip(str, filter.chars)
      [] filter.kind = "substring" -> filterSubstring(str, filter.start, filter.end)
      [] filter.kind = "digit" -> filterDigits(str)
      [] filter.kind = "uppercase" -> ToUpper(str)
      [] filter.kind = "lowercase" -> ToLower(str)

(***************************************************************************)
(* Go slices.  A []Filter value is a window (array, len, cap) on a backing *)
(* array of the heap; two slices on one array share its elements.          *)
(***************************************************************************)

\* []Filter{}: length 0, capacity 0, no backing array.
EmptySlice ==
    [arr |-> 0, len |-> 0, cap |-> 0]

\* The elements a slice holds: the first len elements of its backing array.
Elems(h, s) ==
    IF s.arr = 0 THEN <<>> ELSE SubSeq(h[s.arr], 1, s.len)

\* The capacity append gives the new backing array when the old one is full:
\* one element done at a time, the runtime doubles a small capacity.
GrowCap(cap) ==
    IF cap = 0 THEN 1 ELSE 2 * cap

\* append(s, f): in place when len < cap, and on a fresh array otherwise.
AppendSlice(h, s, f) ==
    IF s.len < s.cap
    THEN [heap  |-> [h EXCEPT ![s.arr][s.len + 1] = f],
          slice |-> [s EXCEPT !.len = s.len + 1]]
    ELSE [heap  |-> Append(h, [k \in 1..GrowCap(s.cap) |->
                                  IF k <= s.len THEN h[s.arr][k]
                                  ELSE IF k = s.len + 1 THEN f ELSE Nil]),
          slice |-> [arr |-> Len(h) + 1, len |-> s.len + 1, cap |-> GrowCap(s.cap)]]

(***************************************************************************)
(* The inputs: the lines of the sites file and the master password file.   *)
(***************************************************************************)

\* The most lines of a sites file when loadSites is run on its own.
MaxLines ==
    5

\* The most lines of a sites file when the whole program is run.
MaxMainLines ==
    4

\* strings.Join(parts, sep) for a one-character separator.
JoinWith(parts, sep) ==
    Flatten([k \in 1..Len(parts) |-> IF k = 1 THEN parts[k] ELSE <<sep>> \o parts[k]])

\* The text of a directive line: "# @name arg ...".
Directive(name, args) ==
    JoinWith(<<<<"#">>, <<"@">> \o name>> \o args, " ")

\* The raw lines a sites file is made of: an empty line, a directive with no
\* arguments, one that shortens the string, a malformed one, a comment, and two
\* site names, one of them with surrounding white space.
SiteLines ==
    { <<>>,
      Directive(kwDigit, <<>>),
      Directive(kwSubstring, << <<"2", "0">>, <<"4", "0">> >>),
      Directive(kwReplace, << <<"x">> >>),
      <<" ", "a", "\r">>,
      <<"b">> }

\* The contents of a sites file: up to max raw lines joined by "\n".
SiteFiles(max) ==
    { JoinWith(ls, "\n") : ls \in UNION { [1..n -> SiteLines] : n \in 1..max } }

\* The contents of the master password file.
MasterFiles ==
    { <<"p", "w", "\n">>, <<" ", "h", "u", "n", "t", "e", "r", "2">> }

\* The working string's length: the [0:32] of Site.Password.
PassLen ==
    32

\* base64.StdEncoding.EncodeToString(sha512.Sum512([]byte(str)))[0:32], tabulated
\* for the strings "name:masterPass" the inputs above give rise to.
Sum512Base64Prefix(str) ==
    CASE
         str = <<"a", ":", "p", "w">> ->
          <<"l", "K", "z", "6", "p", "O", "G", "L", "x", "7", "H", "M", "J", "z", "v", "m",
            "B", "4", "t", "u", "9", "t", "Z", "/", "v", "M", "v", "m", "N", "e", "/", "B">>
      [] str = <<"a", ":", "h", "u", "n", "t", "e", "r", "2">> ->
          <<"C", "l", "N", "y", "W", "J", "t", "H", "s", "+", "m", "5", "T", "M", "A", "/",
            "r", "N", "j", "G", "d", "7", "a", "m", "1", "5", "H", "t", "C", "X", "M", "Q">>
      [] str = <<"b", ":", "p", "w">> ->
          <<"b", "t", "x", "a", "j", "v", "D", "q", "R", "V", "a", "5", "6", "w", "Q", "i",
            "G", "U", "3", "E", "K", "S", "2", "U", "N", "0", "T", "k", "d", "0", "x", "C">>
      [] str = <<"b", ":", "h", "u", "n", "t", "e", "r", "2">> ->
          <<"4", "5", "R", "l", "4", "9", "N", "t", "s", "r", "a", "U", "z", "6", "s", "R",
            "2", "J", "T", "6", "S", "H", "x", "M", "z", "H", "/", "N", "G", "B", "d", "+">>

(***************************************************************************)
(* The inputs of the functions that are also run on their own.             *)
(***************************************************************************)

\* The most arguments of a directive handed to ParseFilter.
MaxArgs ==
    3

\* The second field of the lines handed to ParseFilter: the six kinds, an
\* unknown kind, a bare "@", and two fields without the "@" prefix.
NameFields ==
    { <<"@">> \o kwReplace, <<"@">> \o kwSkip, <<"@">> \o kwSubstring,
      <<"@">> \o kwDigit, <<"@">> \o kwUppercase, <<"@">> \o kwLowercase,
      <<"@">> \o <<"b", "o", "g", "u", "s">>, <<"@">>, kwReplace, <<"#">> \o kwDigit }

\* The fields that follow it.
ArgFields ==
    { <<"a">>, <<"5">> }

\* The lines handed to ParseFilter: "#" alone, a single field, a directive
\* with tabs and runs of spaces between its fields, and "#" followed by a name
\* field and up to MaxArgs arguments.
ParseLines ==
    { <<"#">>, <<"#", "@">> \o kwDigit,
      <<"#", "\t", "@">> \o kwSkip \o <<" ", " ", "a", "\t">> }
    \cup { JoinWith(<<<<"#">>, name>> \o args, " ") :
               name \in NameFields,
               args \in UNION { [1..n -> ArgFields] : n \in 0..MaxArgs } }

\* strconv.Itoa for n >= 0: the directive's numbers as the file spells them.
RECURSIVE Itoa(_)
Itoa(n) ==
    IF n < 10 THEN <<Digits[n + 1]>> ELSE Itoa(n \div 10) \o <<Digits[(n % 10) + 1]>>

\* The spelling of an integer, with its sign.
Numeral(n) ==
    IF n < 0 THEN <<"-">> \o Itoa(0 - n) ELSE Itoa(n)

\* The longest of the short strings the substring filter is run on.
MaxSubLen ==
    10

\* The largest number a substring directive of the model names.
MaxNum ==
    11

\* The working string of site "a" under the master password "pw".
Working ==
    Sum512Base64Prefix(<<"a", ":", "p", "w">>)

\* The strings the substring filter is run on: the working string and its
\* prefixes of up to MaxSubLen characters.
SubstringStrings ==
    { SubSeq(Working, 1, n) : n \in 0..MaxSubLen } \cup { Working }

\* The arguments of a substring directive: a number, text that is no number,
\* or (for the second argument) nothing.
SubstringArgs ==
    { [is |-> "number", val |-> n] : n \in (0 - 1)..MaxNum } \cup { [is |-> "text"] }

\* How the file spells an argument.
ArgText(arg) ==
    IF arg.is = "number" THEN Numeral(arg.val) ELSE <<"x">>

\* The longest string the skip filter is run on.
MaxSkipLen ==
    3

\* The strings the skip filter is run on, and the arguments of the directive.
SkipStrings ==
    UNION { [1..n -> {"a", "b", "c"}] : n \in 0..MaxSkipLen } \cup { Working }

SkipArgs ==
    UNION { [1..n -> {"a", "b"}] : n \in 1..2 } \cup { <<"z", "M", "/">> }

\* The alphabet of standard base64 without the padding.
Base64Alphabet ==
    {Uppers[i] : i \in 1..26} \cup {Lowers[i] : i \in 1..26}
        \cup {Digits[i] : i \in 1..10} \cup {"+", "/"}

\* The longest string of the digit filter's inputs made of the sample characters.
MaxDigitLen ==
    3

\* One or two characters of every class the digit filter treats alike.
DigitSampleChars ==
    {"a", "k", "t", "u", "J", "T", "Z", "0", "9", "+", "/"}

\* The strings the digit filter is run on: every single character of the
\* alphabet, the strings of up to MaxDigitLen sample characters, and the
\* tabulated working strings.
DigitStrings ==
    { <<c>> : c \in Base64Alphabet }
    \cup UNION { [1..n -> DigitSampleChars] : n \in 0..MaxDigitLen }
    \cup { Sum512Base64Prefix(n \o <<":">> \o m) :
               n \in {<<"a">>, <<"b">>},
               m \in {<<"p", "w">>, <<"h", "u", "n", "t", "e", "r", "2">>} }

(***************************************************************************)
(* The program: init (loadSites, loadMasterPassword) and main.             *)
(***************************************************************************)

VARIABLES
    pc,              \* where the program is
    lines,           \* loadSites: strings.Split(fileContent, "\n")
    li,              \* loadSites: the index of the line the loop is at
    sites,           \* loadSites: the registry; afterwards the global `sites`
    latestFilters,   \* loadSites: the pending filter chain, a slice
    heap,            \* the backing arrays of the []Filter slices
    masterPassword,  \* the global `masterPassword`
    si,              \* main: the index of the site the second loop is at
    pass,            \* Site.Password: the string the filters are threaded through
    fi,              \* Site.Password: the index of the filter the loop is at
    base,            \* Site.Password: pass before the first filter
    printed,         \* the passwords main has printed
    call,            \* a call of one function on its own: its arguments
    ret              \* a call of one function on its own: its result

vars ==
    <<pc, lines, li, sites, latestFilters, heap, masterPassword, si, pass, fi, base,
      printed, call, ret>>

progVars ==
    <<pc, lines, li, sites, latestFilters, heap, masterPassword, si, pass, fi, base,
      printed>>

NoCall ==
    [fn |-> "none"]

ProgInit ==
    /\ pc = "init"
    /\ lines = <<>>
    /\ li = 1
    /\ sites = <<>>
    /\ latestFilters = EmptySlice
    /\ heap = <<>>
    /\ masterPassword = <<>>
    /\ si = 1
    /\ pass = <<>>
    /\ fi = 1
    /\ base = <<>>
    /\ printed = <<>>

Init ==
    /\ ProgInit
    /\ call = NoCall
    /\ ret = NoCall

\* LineKind with a directive that yields no filter falling through to the default.
LineKindFallThrough(line) ==
    IF line = <<>> THEN "blank"
    ELSE IF line[1] = "#" /\ ParseFilter(line) # Nil THEN "filter"
    ELSE "site"

\* The case the switch of loadSites takes for a trimmed line.
LineKind(line) ==
    IF line = <<>> THEN "blank"
    ELSE IF line[1] = "#" THEN "filter"
    ELSE "site"

\* ResetFilters that leaves the pending chain as it is.
ResetFiltersKeep(lf) ==
    lf

\* ResetFilters as latestFilters = latestFilters[:0]: the backing array is kept.
ResetFiltersReslice(lf) ==
    [lf EXCEPT !.len = 0]

\* case line == "": latestFilters = []Filter{}
ResetFilters(lf) ==
    EmptySlice

\* AddFilter without the nil check.
AddFilterUnchecked(h, lf, filter) ==
    AppendSlice(h, lf, filter)

\* case line[0] == '#': append the parsed filter unless it is nil.
AddFilter(h, lf, filter) ==
    IF filter # Nil THEN AppendSlice(h, lf, filter) ELSE [heap |-> h, slice |-> lf]

\* default: &Site{Name: line, Filters: latestFilters}
NewSite(line, lf) ==
    [Name |-> line, Filters |-> lf]

\* loadSites up to its loop: the file is read whole and split into lines.
loadSitesRead(files) ==
    /\ pc = "init"
    /\ \E fileContent \in files :
           lines' = Split(fileContent, "\n")
    /\ sites' = <<>>
    /\ latestFilters' = EmptySlice
    /\ li' = 1
    /\ pc' = "loadSites"
    /\ UNCHANGED <<heap, masterPassword, si, pass, fi, base, printed, call, ret>>

loadSitesBlank ==
    /\ pc = "loadSites"
    /\ li <= Len(lines)
    /\ LineKind(TrimSpace(lines[li])) = "blank"
    /\ latestFilters' = ResetFilters(latestFilters)
    /\ li' = li + 1
    /\ UNCHANGED <<pc, lines, sites, heap, masterPassword, si, pass, fi, base, printed,
                   call, ret>>

loadSitesFilter ==
    /\ pc = "loadSites"
    /\ li <= Len(lines)
    /\ LineKind(TrimSpace(lines[li])) = "filter"
    /\ LET r == AddFilter(heap, latestFilters, ParseFilter(TrimSpace(lines[li])))
       IN  /\ heap' = r.heap
           /\ latestFilters' = r.slice
    /\ li' = li + 1
    /\ UNCHANGED <<pc, lines, sites, masterPassword, si, pass, fi, base, printed,
                   call, ret>>

loadSitesSite ==
    /\ pc = "loadSites"
    /\ li <= Len(lines)
    /\ LineKind(TrimSpace(lines[li])) = "site"
    /\ sites' = Append(sites, NewSite(TrimSpace(lines[li]), latestFilters))
    /\ li' = li + 1
    /\ UNCHANGED <<pc, lines, latestFilters, heap, masterPassword, si, pass, fi, base,
                   printed, call, ret>>

\* return sites
loadSitesReturn ==
    /\ pc = "loadSites"
    /\ li > Len(lines)
    /\ pc' = "loadMasterPassword"
    /\ UNCHANGED <<lines, li, sites, latestFilters, heap, masterPassword, si, pass, fi,
                   base, printed, call, ret>>

loadMasterPassword ==
    /\ pc = "loadMasterPassword"
    /\ \E fileContent \in MasterFiles :
           masterPassword' = TrimSpace(fileContent)
    /\ si' = 1
    /\ pc' = "main"
    /\ UNCHANGED <<lines, li, sites, latestFilters, heap, pass, fi, base, printed,
                   call, ret>>

\* RangeFilter from the last filter to the first.
RangeFilterReversed(filters, k) ==
    filters[Len(filters) + 1 - k]

\* The filter the k-th round of `for _, filter := range s.Filters` takes.
RangeFilter(filters, k) ==
    filters[k]

\* main calls site.Password(masterPassword): the working string is computed.
PasswordCall ==
    /\ pc = "main"
    /\ si <= Len(sites)
    /\ base' = Sum512Base64Prefix(sites[si].Name \o <<":">> \o masterPassword)
    /\ pass' = base'
    /\ fi' = 1
    /\ pc' = "Password"
    /\ UNCHANGED <<lines, li, sites, latestFilters, heap, masterPassword, si, printed,
                   call, ret>>

\* pass = filter(pass), which panics when a slice expression is out of range.
PasswordFilter ==
    /\ pc = "Password"
    /\ fi <= sites[si].Filters.len
    /\ LET filter == RangeFilter(Elems(heap, sites[si].Filters), fi)
       IN  IF FilterPanics(filter, pass)
           THEN /\ pc' = "panic"
                /\ UNCHANGED <<pass, fi>>
           ELSE /\ pass' = ApplyFilter(filter, pass)
                /\ fi' = fi + 1
                /\ pc' = pc
    /\ UNCHANGED <<lines, li, sites, latestFilters, heap, masterPassword, si, base,
                   printed, call, ret>>

\* return pass, which main prints.
PasswordReturn ==
    /\ pc = "Password"
    /\ fi > sites[si].Filters.len
    /\ printed' = Append(printed, pass)
    /\ si' = si + 1
    /\ pc' = "main"
    /\ UNCHANGED <<lines, li, sites, latestFilters, heap, masterPassword, pass, fi, base,
                   call, ret>>

mainReturn ==
    /\ pc = "main"
    /\ si > Len(sites)
    /\ pc' = "exit"
    /\ UNCHANGED <<lines, li, sites, latestFilters, heap, masterPassword, si, pass, fi,
                   base, printed, call, ret>>

Next ==
    \/ loadSitesRead(SiteFiles(MaxMainLines))
    \/ loadSitesBlank
    \/ loadSitesFilter
    \/ loadSitesSite
    \/ loadSitesReturn
    \/ loadMasterPassword
    \/ PasswordCall
    \/ PasswordFilter
    \/ PasswordReturn
    \/ mainReturn

Spec ==
    Init /\ [][Next]_vars

\* loadSites on its own, on the longer files.
NextLoad ==
    \/ loadSitesRead(SiteFiles(MaxLines))
    \/ loadSitesBlank
    \/ loadSitesFilter
    \/ loadSitesSite
    \/ loadSitesReturn

SpecLoad ==
    Init /\ [][NextLoad]_vars

(***************************************************************************)
(* The registry loadSites builds (SpecLoad).                               *)
(***************************************************************************)

\* Line k of the input with its surrounding white space removed.
Trimmed(k) ==
    TrimSpace(lines[k])

IsBlankLine(k) ==
    Trimmed(k) = <<>>

IsDirectiveLine(k) ==
    Trimmed(k) # <<>> /\ Trimmed(k)[1] = "#"

IsNameLine(k) ==
    Trimmed(k) # <<>> /\ Trimmed(k)[1] # "#"

\* The number of lines the loop of loadSites is done with.
Processed ==
    IF pc = "init" THEN 0 ELSE li - 1

\* The lines among the first n that are site names.
NameLines(n) ==
    {k \in 1..n : IsNameLine(k)}

\* The last blank line before line k, or 0.
ScopeStart(k) ==
    IF \E m \in 1..(k - 1) : IsBlankLine(m)
    THEN CHOOSE m \in 1..(k - 1) : IsBlankLine(m) /\ \A n \in (m + 1)..(k - 1) : ~IsBlankLine(n)
    ELSE 0

\* Whether line m is a directive ParseFilter makes a filter of.
IsParsedDirective(m) ==
    IsDirectiveLine(m) /\ ParseFilter(Trimmed(m)) # Nil

\* The filters of the directives between the last blank line before line k and
\* line k, in the order of the lines.
DeclaredChain(k) ==
    Flatten([m \in 1..(k - 1 - ScopeStart(k)) |->
                IF IsParsedDirective(ScopeStart(k) + m)
                THEN <<ParseFilter(Trimmed(ScopeStart(k) + m))>>
                ELSE <<>>])

\* The filter chain site j holds.
ChainOf(j) ==
    Elems(heap, sites[j].Filters)

\* C1: at every point of loadSites and after it, there is one site per name line
\* read so far, and the chain of the j-th site is exactly the filters of the
\* successfully parsed directives between the last blank line before the j-th
\* name line (or the start of the input) and that name line, in order.
C1_ChainIsDeclaredScope ==
    /\ Len(sites) = Cardinality(NameLines(Processed))
    /\ \A j \in 1..Len(sites) :
           ChainOf(j) = DeclaredChain(Nth(NameLines(Processed), j))

\* loadSites has returned a site with a non-empty chain followed by a site that
\* was declared after a blank line and holds the empty chain.
C1_Witness ==
    /\ pc = "loadMasterPassword"
    /\ \E j \in 1..Len(sites) : \E k \in (j + 1)..Len(sites) :
           /\ ChainOf(j) # <<>>
           /\ ChainOf(k) = <<>>
           /\ \E m \in 1..Len(lines) : IsBlankLine(m)

\* C2: no step changes the name or the chain (contents and length) of a site
\* that is already in the registry, and no step removes a site from it.
C2_SitesAreFrozen ==
    [][\A j \in 1..Len(sites) :
           /\ j <= Len(sites')
           /\ sites'[j].Name = sites[j].Name
           /\ Elems(heap', sites'[j].Filters) = Elems(heap, sites[j].Filters)]_vars

\* loadSites has returned, and after a site was created a further directive was
\* appended in place to the backing array the site's chain lies in.
C2_Witness ==
    /\ pc = "loadMasterPassword"
    /\ \E j \in 1..Len(sites) :
           /\ sites[j].Filters.len > 0
           /\ sites[j].Filters.arr = latestFilters.arr
           /\ sites[j].Filters.len < latestFilters.len

\* The trimmed lines among the first n that are site names, in input order.
NamesIn(n) ==
    Flatten([k \in 1..n |-> IF IsNameLine(k) THEN <<Trimmed(k)>> ELSE <<>>])

\* C3: the names of the registry are exactly the trimmed lines read so far that
\* are non-empty and do not start with "#", in input order; when loadSites
\* returns, that is so for the whole input.
C3_RegistryIsNameLines ==
    /\ [j \in 1..Len(sites) |-> sites[j].Name] = NamesIn(Processed)
    /\ pc = "loadMasterPassword" => Processed = Len(lines)

\* loadSites has returned two sites with different names from an input that
\* also holds a blank line and a "#" line, one name standing in white space.
C3_Witness ==
    /\ pc = "loadMasterPassword"
    /\ Len(sites) >= 2
    /\ sites[1].Name # sites[2].Name
    /\ \E k \in 1..Len(lines) : IsNameLine(k) /\ Trimmed(k) # lines[k]
    /\ \E k \in 1..Len(lines) : IsBlankLine(k)
    /\ \E k \in 1..Len(lines) : IsDirectiveLine(k)

\* The loop of loadSites is at a "#" line ParseFilter makes no filter of.
AtMalformedDirective ==
    /\ pc = "loadSites"
    /\ li <= Len(lines)
    /\ IsDirectiveLine(li)
    /\ ParseFilter(Trimmed(li)) = Nil

\* C4: the step over a "#" line that yields no filter only moves to the next
\* line: the pending chain (the slice and the arrays behind it) and the
\* registry are as they were, and the chain is not reset.
C4_MalformedDirectiveIsSkipped ==
    [][AtMalformedDirective =>
           /\ latestFilters' = latestFilters
           /\ heap' = heap
           /\ sites' = sites
           /\ li' = li + 1
           /\ pc' = pc]_vars

\* A malformed directive stood between a parsed directive and a site name, and
\* the site holds the chain the parsed directive began.
C4_Witness ==
    /\ pc = "loadMasterPassword"
    /\ \E k \in 2..(Len(lines) - 1) :
           /\ IsDirectiveLine(k) /\ ParseFilter(Trimmed(k)) = Nil
           /\ IsParsedDirective(k - 1)
           /\ IsNameLine(k + 1)
           /\ \E j \in 1..Len(sites) :
                  /\ Nth(NameLines(Len(lines)), j) = k + 1
                  /\ ChainOf(j) # <<>>

(***************************************************************************)
(* Site.Password in the whole program (Spec).                              *)
(***************************************************************************)

\* f_n(... f_2(f_1(str)) ...) for the chain <<f_1, ..., f_n>>.
RECURSIVE ComposeChain(_, _)
ComposeChain(chain, str) ==
    IF chain = <<>> THEN str
    ELSE ApplyFilter(chain[Len(chain)],
                     ComposeChain(SubSeq(chain, 1, Len(chain) - 1), str))

\* Site.Password is about to return pass.
PasswordReturns ==
    pc = "Password" /\ fi > sites[si].Filters.len

\* C6: what Site.Password returns is its chain composed in declaration order on
\* the 32-character working string, every filter applied once; with the empty
\* chain it is the working string itself.
C6_PasswordComposesChain ==
    PasswordReturns =>
        /\ Len(base) = PassLen
        /\ fi - 1 = Len(ChainOf(si))
        /\ pass = ComposeChain(ChainOf(si), base)
        /\ ChainOf(si) = <<>> => pass = base

\* Site.Password returns for a site with two different filters whose order
\* matters.
C6_Witness ==
    /\ PasswordReturns
    /\ Len(ChainOf(si)) = 2
    /\ ChainOf(si)[1] # ChainOf(si)[2]
    /\ pass # ComposeChain(<<ChainOf(si)[2], ChainOf(si)[1]>>, base)

\* C7: Site.Password never panics, whatever chain loadSites built.
C7_PasswordNeverPanics ==
    pc # "panic"

(***************************************************************************)
(* ParseFilter on its own (SpecParse).                                     *)
(***************************************************************************)

InitParse ==
    /\ ProgInit
    /\ call \in {[fn |-> "ParseFilter", line |-> l] : l \in ParseLines}
    /\ ret = NoCall

ParseFilterCall ==
    /\ call.fn = "ParseFilter"
    /\ ret = NoCall
    /\ ret' = [fn |-> "ParseFilter", filter |-> ParseFilter(call.line)]
    /\ UNCHANGED <<progVars, call>>

SpecParse ==
    InitParse /\ [][ParseFilterCall]_vars

KnownKinds ==
    {kwReplace, kwSkip, kwSubstring, kwDigit, kwUppercase, kwLowercase}

KindNames ==
    {"replace", "skip", "substring", "digit", "uppercase", "lowercase"}

\* What the text of a directive line makes it malformed: fewer than two
\* fields, a second field without the "@" prefix, an unknown kind, or a number
\* of arguments the kind does not take.
Malformed(line) ==
    LET f == Fields(line)
        nargs == Len(f) - 2
        kind == Tail(f[2])
    IN  \/ Len(f) < 2
        \/ f[2][1] # "@"
        \/ kind \notin KnownKinds
        \/ kind = kwReplace /\ nargs # 2
        \/ kind = kwSkip /\ nargs # 1
        \/ kind = kwSubstring /\ (nargs = 0 \/ nargs > 2)

\* C5: ParseFilter yields no filter exactly for the malformed lines, and a
\* filter of the named kind for every other line.
C5_NilIffMalformed ==
    ret.fn = "ParseFilter" =>
        /\ ret.filter = Nil <=> Malformed(call.line)
        /\ ret.filter # Nil => ret.filter.kind \in KindNames

\* ParseFilter made a filter of "@digit" followed by arguments, and none of a
\* "@substring" with three.
C5_Witness ==
    /\ ret.fn = "ParseFilter"
    /\ ret.filter = Nil
    /\ Len(Fields(call.line)) = 5
    /\ Fields(call.line)[2] = <<"@">> \o kwSubstring

(***************************************************************************)
(* The substring filter on its own (SpecSubstring).                        *)
(***************************************************************************)

InitSubstring ==
    /\ ProgInit
    /\ call \in {[fn |-> "substring", str |-> s, start |-> a, end |-> b] :
                    s \in SubstringStrings,
                    a \in SubstringArgs,
                    b \in SubstringArgs \cup {[is |-> "omitted"]}}
    /\ ret = NoCall

\* The line of the call: "# @substring START" or "# @substring START END".
SubstringLine(c) ==
    Directive(kwSubstring,
              IF c.end.is = "omitted" THEN <<ArgText(c.start)>>
              ELSE <<ArgText(c.start), ArgText(c.end)>>)

\* filter := ParseFilter(line); filter(str)
SubstringCall ==
    /\ call.fn = "substring"
    /\ ret = NoCall
    /\ LET filter == ParseFilter(SubstringLine(call))
       IN  ret' = [fn |-> "substring",
                   filter |-> filter,
                   panics |-> FilterPanics(filter, call.str),
                   str |-> IF FilterPanics(filter, call.str) THEN <<>>
                           ELSE ApplyFilter(filter, call.str)]
    /\ UNCHANGED <<progVars, call>>

SpecSubstring ==
    InitSubstring /\ [][SubstringCall]_vars

Min(a, b) ==
    IF a <= b THEN a ELSE b

\* The call's START is a number within the string.
StartInRange ==
    /\ call.start.is = "number"
    /\ 0 <= call.start.val
    /\ call.start.val <= Len(call.str)

\* The call's second argument is a number that is not negative.
EndGiven ==
    call.end.is = "number" /\ 0 <= call.end.val

\* C8 as claimed, of the calls that return: with 0 <= START <= len(s), a second
\* argument LEN >= 0 yields the characters from START up to
\* min(START+LEN, len(s)), and an omitted, negative or unparsable one the
\* characters from START to the end.
C8_SecondArgumentIsLength ==
    (ret.fn = "substring" /\ StartInRange /\ ~ret.panics) =>
        ret.str = IF EndGiven
                  THEN Slice(call.str, call.start.val,
                             Min(call.start.val + call.end.val, Len(call.str)))
                  ELSE Drop(call.str, call.start.val)

\* C8 amended: with 0 <= START <= len(s), a second argument END >= 0 is an end
\* index: for START <= min(END, len(s)) the filter yields the characters from
\* START up to min(END, len(s)), and for START beyond that the slice is out of
\* range and nothing is returned; an omitted, negative or unparsable second
\* argument yields the characters from START to the end.
C8_SecondArgumentIsEnd ==
    (ret.fn = "substring" /\ StartInRange) =>
        IF EndGiven
        THEN IF call.start.val <= Min(call.end.val, Len(call.str))
             THEN /\ ~ret.panics
                  /\ ret.str = Slice(call.str, call.start.val,
                                     Min(call.end.val, Len(call.str)))
             ELSE ret.panics
        ELSE /\ ~ret.panics
             /\ ret.str = Drop(call.str, call.start.val)

\* "# @substring 5 8" on a 10-character string gave the three characters at
\* the indices 5, 6 and 7.
C8_Witness ==
    /\ ret.fn = "substring"
    /\ Len(call.str) = 10
    /\ call.start = [is |-> "number", val |-> 5]
    /\ call.end = [is |-> "number", val |-> 8]
    /\ ret.str = <<call.str[6], call.str[7], call.str[8]>>

(***************************************************************************)
(* The skip filter on its own (SpecSkip).                                  *)
(***************************************************************************)

InitSkip ==
    /\ ProgInit
    /\ call \in {[fn |-> "skip", str |-> s, arg |-> c] :
                    s \in SkipStrings, c \in SkipArgs}
    /\ ret = NoCall

\* filter := ParseFilter("# @skip C"); filter(str)
SkipCall ==
    /\ call.fn = "skip"
    /\ ret = NoCall
    /\ LET filter == ParseFilter(Directive(kwSkip, <<call.arg>>))
       IN  ret' = [fn |-> "skip", filter |-> filter, str |-> ApplyFilter(filter, call.str)]
    /\ UNCHANGED <<progVars, call>>

SpecSkip ==
    InitSkip /\ [][SkipCall]_vars

\* s without the characters of the set gone, the others in their order.
Without(s, gone) ==
    LET Kept(c) == c \notin gone
    IN  SelectSeq(s, Kept)

\* C9 as claimed: "@skip C" deletes the occurrences of the first character of C
\* and nothing else.
C9_SkipsFirstCharacterOnly ==
    ret.fn = "skip" => ret.str = Without(call.str, {call.arg[1]})

\* C9 amended: "@skip C" deletes the occurrences of every character of C and
\* nothing else, the other characters kept in their order.
C9_SkipsEveryCharacter ==
    ret.fn = "skip" =>
        ret.str = Without(call.str, {call.arg[i] : i \in 1..Len(call.arg)})

\* "@skip ab" ran on a string that holds an "a", a "b" and a "c", and kept
\* the "c" alone.
C9_Witness ==
    /\ ret.fn = "skip"
    /\ call.arg = <<"a", "b">>
    /\ {call.str[i] : i \in 1..Len(call.str)} = {"a", "b", "c"}
    /\ ret.str = <<"c">>

(***************************************************************************)
(* The digit filter on its own (SpecDigits).                               *)
(***************************************************************************)

InitDigits ==
    /\ ProgInit
    /\ call \in {[fn |-> "filterDigits", str |-> s] : s \in DigitStrings}
    /\ ret = NoCall

\* filterDigits(str), and filterDigits of that.
DigitsCall ==
    /\ call.fn = "filterDigits"
    /\ ret = NoCall
    /\ ret' = [fn |-> "filterDigits",
               str |-> filterDigits(call.str),
               again |-> filterDigits(filterDigits(call.str))]
    /\ UNCHANGED <<progVars, call>>

SpecDigits ==
    InitDigits /\ [][DigitsCall]_vars

\* The place of a letter in its alphabet, from 0.
LetterIndex(c) ==
    IF IsLower(c) THEN (CHOOSE i \in 1..26 : Lowers[i] = c) - 1
    ELSE (CHOOSE i \in 1..26 : Uppers[i] = c) - 1

\* What one character becomes in a single pass: the first twenty letters of
\* either case their place modulo 10, the other letters, "+" and "/" nothing,
\* a digit itself.
DigitOf(c) ==
    IF IsLower(c) \/ IsUpper(c)
    THEN IF LetterIndex(c) < 20 THEN <<Digits[(LetterIndex(c) % 10) + 1]>> ELSE <<>>
    ELSE IF c \in {"+", "/"} THEN <<>>
    ELSE <<c>>

\* C10: the sequence of whole-string replacements gives what the single pass
\* character by character gives, and a second application changes nothing.
C10_DigitsIsSinglePass ==
    ret.fn = "filterDigits" =>
        /\ ret.str = Flatten([i \in 1..Len(call.str) |-> DigitOf(call.str[i])])
        /\ ret.again = ret.str

\* The filter ran on "tu9": "t" became "9", "u" was removed, "9" was kept.
C10_Witness ==
    /\ ret.fn = "filterDigits"
    /\ call.str = <<"t", "u", "9">>
    /\ ret.str = <<"9", "9">>

====
